---- MODULE Spec2Model ----
(***************************************************************************)
(* Model of src/services/apiService.ts: the ApiService singleton, its two  *)
(* axios interceptors, handleError, login/logout and the resource methods. *)
(*                                                                         *)
(* JavaScript is single threaded and run-to-completion: the variable       *)
(* `running` names the call whose response is being handled; nothing else  *)
(* runs until that handling has finished.  An optional value (a            *)
(* localStorage entry, a header, a promise's settled value) is a sequence  *)
(* of length 0 (absent, null) or 1 (present).  A JavaScript value is a     *)
(* record tagged by its type in field t.                                   *)
(***************************************************************************)
EXTENDS Integers, Sequences, FiniteSets, TLC

\* Number of method calls issued on the facade in one run.
MaxCalls == 2

Calls == 1..MaxCalls

\* Token strings a backend may return; the empty string is a string too.
Tokens == {"", "abc", "xyz"}

\* login, and getPosts for the resource methods: each of them awaits one axios
\* request and returns response.data (or nothing) without touching any state.
Methods == {"login", "getPosts"}

Undefined == [t |-> "undefined"]

Str(s) == [t |-> "string", s |-> s]

AuthResponse(tk) == [t |-> "object", token |-> tk, expiresIn |-> 3600]

Posts == [t |-> "array", items |-> <<"p1">>]

\* Failure bodies of the ApiError shape, one with the optional errors list.
ApiErrorBodies ==
    { [t |-> "object", status |-> 401, message |-> "Unauthorized"],
      [t |-> "object", status |-> 400, message |-> "Validation failed",
       errors |-> <<[field |-> "title", message |-> "required"]>>] }

\* JavaScript truthiness of a value (the test of `if (x)`).
Truthy(v) ==
    CASE v.t = "undefined" -> FALSE
      [] v.t = "string"    -> v.s # ""
      [] OTHER             -> TRUE

\* What the transport settles an axios request with.
SuccessResponses(m) ==
    IF m = "login"
    THEN { [ok |-> TRUE, hasResponse |-> TRUE, status |-> 200, data |-> AuthResponse(tk)] : tk \in Tokens }
    ELSE { [ok |-> TRUE, hasResponse |-> TRUE, status |-> 200, data |-> Posts] }

\* Failures: a 401 with a structured and with an empty body, a 400 with a
\* structured and with an unstructured body, and a transport failure (no
\* response at all).
ErrorResponses ==
    { [ok |-> FALSE, hasResponse |-> TRUE, status |-> 401, data |-> d] :
         d \in { b \in ApiErrorBodies : b.status = 401 } \cup { Str("") } }
    \cup { [ok |-> FALSE, hasResponse |-> TRUE, status |-> 400, data |-> d] :
         d \in { b \in ApiErrorBodies : b.status = 400 } \cup { Str("<html>") } }
    \cup { [ok |-> FALSE, hasResponse |-> FALSE, status |-> 0, data |-> Undefined] }

Responses(m) == SuccessResponses(m) \cup ErrorResponses

VARIABLES
    instance,      \* ApiService.instance: 0 = undefined, else the id of the object
    constructed,   \* number of times the constructor has run
    interceptors,  \* interceptors installed on the axios instance
    returned,      \* ids of the objects getInstance has returned
    localStorage,  \* localStorage['token']: <<>> or <<string>>
    href,          \* window.location.href
    redirects,     \* number of assignments of '/login' to window.location.href
    calls,         \* per call: position and data
    running,       \* the call whose response is being handled, 0 = none
    arrivals,      \* number of responses that have arrived
    logoutAt       \* number of responses arrived at the last logout(), -1 = never

vars == <<instance, constructed, interceptors, returned, localStorage, href,
          redirects, calls, running, arrivals, logoutAt>>

IdleCall ==
    [pc |-> "idle", method |-> "login", auth |-> <<>>, sends |-> 0,
     resp |-> <<>>, arrival |-> 0, redirected |-> 0, normalized |-> 0,
     error |-> <<>>, result |-> <<>>]

Init ==
    /\ instance = 0
    /\ constructed = 0
    /\ interceptors = [request |-> 0, response |-> 0]
    /\ returned = {}
    /\ localStorage \in { <<>>, <<"abc">> }
    /\ href = "/"
    /\ redirects = 0
    /\ calls = [c \in Calls |-> IdleCall]
    /\ running = 0
    /\ arrivals = 0
    /\ logoutAt = -1

----
\* The Authorization header the request interceptor leaves on the config.
AuthorizationHeader(token) ==
    IF token # <<>> /\ token[1] # ""
    THEN << "Bearer " \o token[1] >>
    ELSE <<>>

\* Mutants of the status test: the wrong status, and no status test at all.
IsUnauthorized_Forbidden(error) == error.hasResponse /\ error.status = 403

IsUnauthorized_AnyStatus(error) == error.hasResponse

\* error.response?.status === 401
IsUnauthorized(error) == error.hasResponse /\ error.status = 401

\* Mutant: the response body is never used.
handleError_AlwaysFallback(error) ==
    [t |-> "object", status |-> 500, message |-> "An unexpeceted error has occured"]

handleError(error) ==
    IF error.hasResponse /\ Truthy(error.data)
    THEN error.data
    ELSE [t |-> "object", status |-> 500, message |-> "An unexpeceted error has occured"]

\* Mutants: login forgets to store the token; login keeps a token already stored.
StoreAfterSuccess_NoWrite(m, data, store) == store

StoreAfterSuccess_FirstWins(m, data, store) ==
    IF m = "login" /\ store = <<>> THEN << data.token >> ELSE store

\* The store after a method's continuation has run on a success response.
StoreAfterSuccess(m, data, store) ==
    IF m = "login" THEN << data.token >> ELSE store

----
\* Mutant: the instance check is missing, every access constructs.
GetInstance_AlwaysConstructs ==
    /\ running = 0
    /\ constructed < 3
    /\ constructed' = constructed + 1
    /\ instance' = constructed + 1
    /\ interceptors' = [request |-> interceptors.request + 1,
                        response |-> interceptors.response + 1]
    /\ returned' = returned \cup {instance'}
    /\ UNCHANGED <<localStorage, href, redirects, calls, running, arrivals, logoutAt>>

GetInstance ==
    /\ running = 0
    /\ IF instance = 0
       THEN /\ constructed' = constructed + 1
            /\ instance' = constructed + 1
            /\ interceptors' = [request |-> interceptors.request + 1,
                                response |-> interceptors.response + 1]
       ELSE UNCHANGED <<instance, constructed, interceptors>>
    /\ returned' = returned \cup {instance'}
    /\ UNCHANGED <<localStorage, href, redirects, calls, running, arrivals, logoutAt>>

\* A caller invokes method m: the axios request is created, its interceptor
\* chain has not run yet.
Call(c, m) ==
    /\ running = 0
    /\ instance # 0
    /\ calls[c].pc = "idle"
    /\ c > 1 => calls[c - 1].pc # "idle"
    /\ calls' = [calls EXCEPT ![c].pc = "called", ![c].method = m]
    /\ UNCHANGED <<instance, constructed, interceptors, returned, localStorage,
                   href, redirects, running, arrivals, logoutAt>>

\* The request interceptor runs and the request is transmitted.
RequestInterceptor(c) ==
    /\ running = 0
    /\ calls[c].pc = "called"
    /\ calls' = [calls EXCEPT ![c].pc = "sent",
                              ![c].auth = AuthorizationHeader(localStorage),
                              ![c].sends = @ + 1]
    /\ UNCHANGED <<instance, constructed, interceptors, returned, localStorage,
                   href, redirects, running, arrivals, logoutAt>>

\* The transport settles the request of call c with r.
Respond(c, r) ==
    /\ running = 0
    /\ calls[c].pc = "sent"
    /\ r \in Responses(calls[c].method)
    /\ calls' = [calls EXCEPT ![c].pc = "responded",
                              ![c].resp = <<r>>,
                              ![c].arrival = arrivals + 1]
    /\ arrivals' = arrivals + 1
    /\ running' = c
    /\ UNCHANGED <<instance, constructed, interceptors, returned, localStorage,
                   href, redirects, logoutAt>>

\* Success: the response interceptor passes the response through and the
\* method's continuation runs.
Fulfil(c) ==
    /\ running = c
    /\ calls[c].pc = "responded"
    /\ calls[c].resp[1].ok
    /\ localStorage' = StoreAfterSuccess(calls[c].method, calls[c].resp[1].data, localStorage)
    /\ calls' = [calls EXCEPT ![c].pc = "resolved",
                              ![c].result = << calls[c].resp[1].data >>]
    /\ running' = 0
    /\ UNCHANGED <<instance, constructed, interceptors, returned, href,
                   redirects, arrivals, logoutAt>>

\* Failure, first part of the response interceptor: the 401 side effects.
ResponseRejected(c) ==
    /\ running = c
    /\ calls[c].pc = "responded"
    /\ ~ calls[c].resp[1].ok
    /\ IF IsUnauthorized(calls[c].resp[1])
       THEN /\ localStorage' = <<>>
            /\ href' = "/login"
            /\ redirects' = redirects + 1
            /\ calls' = [calls EXCEPT ![c].pc = "normalize", ![c].redirected = @ + 1]
       ELSE /\ calls' = [calls EXCEPT ![c].pc = "normalize"]
            /\ UNCHANGED <<localStorage, href, redirects>>
    /\ UNCHANGED <<instance, constructed, interceptors, returned, running,
                   arrivals, logoutAt>>

\* Failure, second part: this.handleError(error).
Normalize(c) ==
    /\ running = c
    /\ calls[c].pc = "normalize"
    /\ calls' = [calls EXCEPT ![c].pc = "rejecting",
                              ![c].error = << handleError(calls[c].resp[1]) >>,
                              ![c].normalized = @ + 1]
    /\ UNCHANGED <<instance, constructed, interceptors, returned, localStorage,
                   href, redirects, running, arrivals, logoutAt>>

\* Mutant: the interceptor returns the normalized error instead of rejecting
\* with it, so the call resolves.
Reject_Swallowed(c) ==
    /\ running = c
    /\ calls[c].pc = "rejecting"
    /\ calls' = [calls EXCEPT ![c].pc = "resolved", ![c].result = calls[c].error]
    /\ running' = 0
    /\ UNCHANGED <<instance, constructed, interceptors, returned, localStorage,
                   href, redirects, arrivals, logoutAt>>

\* Failure, last part: Promise.reject(...) reaches the awaiting method, which
\* rethrows to its caller.
Reject(c) ==
    /\ running = c
    /\ calls[c].pc = "rejecting"
    /\ calls' = [calls EXCEPT ![c].pc = "rejected", ![c].result = calls[c].error]
    /\ running' = 0
    /\ UNCHANGED <<instance, constructed, interceptors, returned, localStorage,
                   href, redirects, arrivals, logoutAt>>

\* Mutant: logout navigates to the login route as the 401 handler does.
Logout_Redirects ==
    /\ running = 0
    /\ instance # 0
    /\ localStorage' = <<>>
    /\ href' = "/login"
    /\ redirects' = redirects + 1
    /\ logoutAt' = arrivals
    /\ UNCHANGED <<instance, constructed, interceptors, returned, calls,
                   running, arrivals>>

Logout ==
    /\ running = 0
    /\ instance # 0
    /\ localStorage' = <<>>
    /\ logoutAt' = arrivals
    /\ UNCHANGED <<instance, constructed, interceptors, returned, href,
                   redirects, calls, running, arrivals>>

Next ==
    \/ GetInstance
    \/ \E c \in Calls, m \in Methods : Call(c, m)
    \/ \E c \in Calls : RequestInterceptor(c)
    \/ \E c \in Calls : \E r \in Responses(calls[c].method) : Respond(c, r)
    \/ \E c \in Calls : Fulfil(c)
    \/ \E c \in Calls : ResponseRejected(c)
    \/ \E c \in Calls : Normalize(c)
    \/ \E c \in Calls : Reject(c)
    \/ Logout

Spec == Init /\ [][Next]_vars

----
(***************************************************************************)
(* Vocabulary of the properties.                                           *)
(***************************************************************************)
\* The body has the ApiError shape {status, message, errors?}.
MatchesApiError(v) == v.t = "object" /\ {"status", "message"} \subseteq DOMAIN v

HasResponded(c) == calls[c].resp # <<>>

Failed(c) == HasResponded(c) /\ ~ calls[c].resp[1].ok

Got401(c) ==
    HasResponded(c) /\ calls[c].resp[1].hasResponse /\ calls[c].resp[1].status = 401

LoginSucceeded(c) ==
    HasResponded(c) /\ calls[c].method = "login" /\ calls[c].resp[1].ok

Settled(c) == calls[c].pc \in {"resolved", "rejected"}

\* Calls whose response has been handled completely and wrote the store.
Writers == { c \in Calls : Settled(c) /\ (LoginSucceeded(c) \/ Got401(c)) }

LastWriter == CHOOSE c \in Writers : \A d \in Writers : calls[d].arrival <= calls[c].arrival

Effect(c) == IF LoginSucceeded(c) THEN << calls[c].resp[1].data.token >> ELSE <<>>

----
\* C1: every transmitted request carries Authorization: Bearer <t> exactly
\* when the store holds a token t at the moment the request interceptor runs,
\* and carries no Authorization header when the store holds none.
C1_BearerIffStored ==
    [][\A c \in Calls :
          (calls[c].pc = "called" /\ calls'[c].pc = "sent") =>
             calls'[c].auth = IF localStorage = <<>>
                              THEN <<>>
                              ELSE << "Bearer " \o localStorage[1] >>]_vars

\* C2: once the response interceptor has handled a 401 response, the store is
\* empty and '/login' has been assigned to the location exactly once for that
\* response, whatever the store held and whatever the request carried.
C2_UnauthorizedErasesAndRedirectsOnce ==
    /\ \A c \in Calls : Got401(c) =>
          /\ calls[c].pc = "responded" => calls[c].redirected = 0
          /\ calls[c].pc \in {"normalize", "rejecting"} =>
                localStorage = <<>> /\ href = "/login"
          /\ calls[c].pc \in {"normalize", "rejecting", "rejected"} =>
                calls[c].redirected = 1
    /\ redirects = Cardinality({ c \in Calls : Got401(c) /\ calls[c].pc # "responded" })

C2_Witness ==
    \E c \in Calls :
        /\ Got401(c) /\ calls[c].pc = "rejecting"
        /\ calls[c].auth = << "Bearer abc" >>
        /\ calls[c].redirected = 1 /\ redirects = 1
        /\ localStorage = <<>> /\ href = "/login"

\* C3: a failure response whose body has the ApiError shape rejects the call
\* with exactly that body, for every method and every status, 401 included.
C3_StructuredBodyVerbatim ==
    \A c \in Calls :
        (calls[c].pc = "rejected" /\ calls[c].resp[1].hasResponse
            /\ MatchesApiError(calls[c].resp[1].data))
        => calls[c].result = << calls[c].resp[1].data >>

C3_Witness ==
    \E c \in Calls :
        /\ calls[c].pc = "rejected" /\ Got401(c)
        /\ MatchesApiError(calls[c].resp[1].data)
        /\ calls[c].result = << calls[c].resp[1].data >>

\* C4: a failure whose body does not have the ApiError shape (no response at
\* all, or an unstructured body) rejects the call with
\* {status: 500, message: "An unexpected error has occurred"}.
C4_FallbackForUnstructured ==
    \A c \in Calls :
        (calls[c].pc = "rejected"
            /\ ~ (calls[c].resp[1].hasResponse /\ MatchesApiError(calls[c].resp[1].data)))
        => calls[c].result =
              << [t |-> "object", status |-> 500,
                  message |-> "An unexpected error has occurred"] >>

\* C5: a success response {token, expiresIn} to login leaves the store holding
\* exactly that token and resolves the call to that body; no earlier step of a
\* login call writes the store.
C5_LoginStoresReturnedToken ==
    [][\A c \in Calls :
          /\ (LoginSucceeded(c) /\ calls[c].pc = "responded" /\ calls'[c].pc # "responded") =>
                /\ localStorage' = << calls[c].resp[1].data.token >>
                /\ calls'[c].pc = "resolved"
                /\ calls'[c].result = << calls[c].resp[1].data >>
          /\ (calls'[c].method = "login" /\ calls[c].pc \in {"idle", "called", "sent"}
                /\ calls'[c].pc # calls[c].pc) =>
                localStorage' = localStorage]_vars

C5_Witness ==
    \E c, d \in Calls :
        /\ LoginSucceeded(c) /\ LoginSucceeded(d) /\ Settled(c) /\ Settled(d)
        /\ calls[d].arrival < calls[c].arrival
        /\ calls[d].resp[1].data.token = "xyz"
        /\ calls[c].resp[1].data.token = "abc"
        /\ calls[c].result = << AuthResponse("abc") >>
        /\ localStorage = << "abc" >>

\* C6: logout() empties the store whatever it held, sends no request and
\* triggers no redirect.
C6_LogoutOnlyErases ==
    [][logoutAt' # logoutAt =>
          /\ localStorage' = <<>>
          /\ calls' = calls
          /\ arrivals' = arrivals
          /\ href' = href /\ redirects' = redirects]_vars

C6_Witness ==
    /\ logoutAt >= 0 /\ localStorage = <<>>
    /\ href = "/" /\ redirects = 0
    /\ \E c \in Calls : calls[c].pc = "sent" /\ calls[c].auth = << "Bearer abc" >>

\* C7: at most one ApiService is ever constructed; the first getInstance()
\* constructs it and installs one request and one response interceptor, every
\* later one returns that same object.
C7_SingleInstance ==
    /\ constructed <= 1
    /\ instance \in {0, 1}
    /\ (instance = 0) <=> (constructed = 0)
    /\ interceptors = [request |-> constructed, response |-> constructed]
    /\ returned \subseteq {1}
    /\ returned # {} => instance = 1

C7_Witness ==
    /\ returned = {1} /\ constructed = 1
    /\ interceptors = [request |-> 1, response |-> 1]
    /\ \A c \in Calls : Settled(c)

\* C8: a failed call runs handleError exactly once, after the 401 erasure and
\* redirect when the status is 401, and is rejected with the normalized error:
\* never resolved, never sent again.
C8_NormalizedOnceAfterSideEffects ==
    \A c \in Calls :
        /\ calls[c].sends <= 1
        /\ ~ Failed(c) => calls[c].normalized = 0 /\ calls[c].pc # "rejected"
        /\ Failed(c) =>
              /\ calls[c].pc \in {"responded", "normalize", "rejecting", "rejected"}
              /\ calls[c].normalized = IF calls[c].pc \in {"rejecting", "rejected"} THEN 1 ELSE 0
              /\ calls[c].pc \in {"responded", "normalize"} => calls[c].error = <<>>
              /\ (calls[c].pc = "normalize" /\ Got401(c)) =>
                    localStorage = <<>> /\ href = "/login" /\ calls[c].redirected = 1
              /\ calls[c].pc # "rejected" => calls[c].result = <<>>
              /\ calls[c].pc = "rejected" =>
                    calls[c].error # <<>> /\ calls[c].result = calls[c].error

C8_Witness ==
    \E c \in Calls :
        /\ Got401(c) /\ calls[c].pc = "normalize"
        /\ calls[c].normalized = 0 /\ calls[c].redirected = 1
        /\ calls[c].auth # <<>> /\ localStorage = <<>>

\* C9: whenever no response is being handled, the store holds the effect of
\* the write that executed last, in the order responses arrived and logout()
\* ran, not in the order the calls were issued.
C9_LastWriterWins ==
    (running = 0 /\ (Writers # {} \/ logoutAt >= 0)) =>
        localStorage = IF Writers # {} /\ calls[LastWriter].arrival > logoutAt
                       THEN Effect(LastWriter)
                       ELSE <<>>

\* Two logins in flight together, answered in the reverse order of their issue.
C9_Witness ==
    /\ MaxCalls >= 2
    /\ LoginSucceeded(1) /\ LoginSucceeded(2) /\ Settled(1) /\ Settled(2)
    /\ calls[2].arrival < calls[1].arrival
    /\ calls[1].resp[1].data.token = "abc"
    /\ calls[2].resp[1].data.token = "xyz"
    /\ localStorage = << "abc" >>

\* C10: the store changes only in a login's success continuation (write), in
\* logout() (erase) and in the handling of a 401 response (erase).
C10_StoreChangesOnlyByThreeEvents ==
    [][localStorage' # localStorage =>
          \/ \E c \in Calls :
                /\ LoginSucceeded(c) /\ calls[c].pc = "responded"
                /\ calls'[c].pc = "resolved"
                /\ localStorage' = << calls[c].resp[1].data.token >>
          \/ /\ logoutAt' # logoutAt /\ calls' = calls
             /\ localStorage' = <<>>
          \/ \E c \in Calls :
                /\ Got401(c) /\ calls[c].pc = "responded"
                /\ calls'[c].pc = "normalize"
                /\ localStorage' = <<>>]_vars

\* A failed login and a successful read have both completed and the store
\* still holds the token it started with.
C10_Witness ==
    /\ logoutAt = -1 /\ localStorage = << "abc" >> /\ Writers = {}
    /\ \E c \in Calls :
          calls[c].method = "login" /\ calls[c].pc = "rejected" /\ calls[c].resp[1].status = 400
    /\ \E c \in Calls : calls[c].method = "getPosts" /\ calls[c].pc = "resolved"

====
